---- MODULE Spec2Model ----
(***************************************************************************)
(* Model of posterAssembly.py: the poster assembler get_poster and the     *)
(* helpers it calls (caption labels, title and footer rows, horizontal and *)
(* vertical merges, font resolution).                                      *)
(*                                                                         *)
(* Strings are sequences of atoms (words and separators); AtomLen gives    *)
(* the number of characters of each atom, so len(), split("/"), slicing    *)
(* and replace() are computed on the text and not assumed.  An image is a  *)
(* record: its size, its fill colour, the images pasted on it with their   *)
(* offsets, and the text drawn on it with its font.                        *)
(***************************************************************************)
EXTENDS Integers, Sequences, FiniteSets, TLC

(***************************************************************************)
(* Bounds of the model.                                                    *)
(***************************************************************************)
MaxTiles == 7
MaxPerRow == 3
MaxBandTiles == 2
MaxMargin == 1
MaxInstalled == 2

(***************************************************************************)
(* Module-level configuration of posterAssembly.py.                        *)
(***************************************************************************)
DEFAULT_FONT_SIZE == 40
DEFAULT_FONT_FAMILY == <<"Arial">>
TEXT_PADDING == 10
TEXT_BOTTOM_MARGIN == 15
TEXT_BACKGROUND_COLOR == <<255, 255, 255, 255>>
TEXT_COLOR == <<0, 0, 0, 255>>
DEFAULT_TITLE_FONT_SIZE == 120
DEFAULT_TITLE_FONT_FAMILY == <<"Helvetica", "-", "Bold">>
DEFAULT_TITLE_HEIGHT == 200
TITLE_BACKGROUND_COLOR == <<255, 255, 255, 255>>
TITLE_TEXT_COLOR == <<0, 0, 0, 255>>
DEFAULT_HORIZONTAL_SPACING == 0
DEFAULT_VERTICAL_SPACING == 0
DEFAULT_BACKGROUND_COLOR == <<250, 250, 250, 255>>
DEFAULT_LEFT_MARGIN == 5
DEFAULT_RIGHT_MARGIN == 5
DEFAULT_FOOTER_FONT_SIZE == 30
DEFAULT_FOOTER_FONT_FAMILY == <<"Arial">>
DEFAULT_FOOTER_HEIGHT == 100
FOOTER_BACKGROUND_COLOR == <<255, 255, 255, 255>>
FOOTER_TEXT_COLOR == <<0, 0, 0, 255>>
FOOTER_LEFT_MARGIN == 40

(***************************************************************************)
(* Python's None, and a value that is present.  A value that may be None   *)
(* is a sequence of length 0 or 1.                                         *)
(***************************************************************************)
None == <<>>
Some(x) == <<x>>
Get(o) == o[1]

(***************************************************************************)
(* Strings.                                                                *)
(***************************************************************************)
AtomLen ==
  "." :> 1 @@ "/" :> 1 @@ "+" :> 1 @@ " " :> 1 @@ "-" :> 1 @@ ".png" :> 4 @@
  "ppcovers" :> 8 @@ "africa" :> 6 @@ "X" :> 1 @@ "Y" :> 1 @@
  "United" :> 6 @@ "States" :> 6 @@ "Democratic" :> 10 @@ "Republic" :> 8 @@
  "of" :> 2 @@ "the" :> 3 @@ "Congo" :> 5 @@ "Sao" :> 3 @@ "Tome" :> 4 @@
  "and" :> 3 @@ "Principe" :> 8 @@ "Bosnia" :> 6 @@ "Herzegovina" :> 11 @@
  "Cocos" :> 5 @@ "(Keeling)" :> 9 @@ "Islands" :> 7 @@ "Central" :> 7 @@
  "African" :> 7 @@ "Bonaire" :> 7 @@ "St" :> 2 @@ "Eustatius" :> 9 @@
  "Saba" :> 4 @@ "Federated" :> 9 @@ "Micronesia" :> 10 @@ "Chad" :> 4

RECURSIVE StrLen(_)
\* len(s): the number of characters of s
StrLen(s) == IF s = <<>> THEN 0 ELSE AtomLen[Head(s)] + StrLen(Tail(s))

RECURSIVE StartsWith(_, _)
StartsWith(s, p) ==
  IF p = <<>> THEN TRUE
  ELSE IF s = <<>> THEN FALSE
  ELSE Head(s) = Head(p) /\ StartsWith(Tail(s), Tail(p))

RECURSIVE Drop(_, _)
Drop(s, n) == IF n = 0 THEN s ELSE Drop(Tail(s), n - 1)

RECURSIVE Replace(_, _, _)
\* s.replace(old, new) for a non-empty old: every occurrence, left to right
Replace(s, old, new) ==
  IF s = <<>> THEN <<>>
  ELSE IF StartsWith(s, old) THEN new \o Replace(Drop(s, Len(old)), old, new)
  ELSE <<Head(s)>> \o Replace(Tail(s), old, new)

RECURSIVE LastSegment(_)
\* s.split("/")[-1]: what follows the last "/"
LastSegment(s) ==
  IF \E k \in 1..Len(s) : s[k] = "/" THEN LastSegment(Tail(s)) ELSE s

RECURSIVE DropLastChars(_, _)
\* s[0:-n]: s without its last n characters (all of s when it is shorter).
\* An atom cut in the middle is kept as one atom of the remaining length.
DropLastChars(s, n) ==
  IF n = 0 THEN s
  ELSE IF s = <<>> THEN <<>>
  ELSE LET a == s[Len(s)]
           front == SubSeq(s, 1, Len(s) - 1)
       IN  IF AtomLen[a] <= n THEN DropLastChars(front, n - AtomLen[a])
           ELSE front \o <<[cut |-> a, keep |-> AtomLen[a] - n]>>

format_country_name(country_name) == Replace(country_name, <<"+">>, <<" ">>)

get_country_name_from_path(path) == DropLastChars(LastSegment(path), 4)

(***************************************************************************)
(* Fonts.  ImageFont.truetype(name, size) loads a font when the name or    *)
(* path names a font installed on the machine and the size is positive,    *)
(* and raises otherwise; ImageFont.load_default() always returns Pillow's  *)
(* built-in font, at its own fixed size.                                   *)
(***************************************************************************)
SUPPLEMENTAL == <<"/System/Library/Fonts/Supplemental/">>
LIBRARY_FONTS == <<"/Library/Fonts/">>

truetype_loads(name, size, inst) == size > 0 /\ name \in inst

truetype(name, size) == [name |-> name, size |-> size]

load_default == [name |-> <<"<default>">>, size |-> 10]

RECURSIVE try_fonts_no_break(_, _, _, _, _)
try_fonts_no_break(variations, size, inst, tried, font) ==
  IF variations = <<>> THEN [font |-> font, tried |-> tried]
  ELSE try_fonts_no_break(Tail(variations), size, inst, Append(tried, Head(variations)),
                          IF truetype_loads(Head(variations), size, inst)
                          THEN Some(truetype(Head(variations), size)) ELSE font)

\* a loop without its break: every candidate is tried and the last that
\* loads is kept
try_fonts_all(variations, size, inst, tried) ==
  try_fonts_no_break(variations, size, inst, tried, None)

RECURSIVE try_fonts(_, _, _, _)
\* for font_variant in variations: try: font = truetype(...); break
\*                                 except: continue
\* font stays None when no candidate loads; tried lists the candidates that
\* were passed to truetype, in the order of the calls.
try_fonts(variations, size, inst, tried) ==
  IF variations = <<>> THEN [font |-> None, tried |-> tried]
  ELSE IF truetype_loads(Head(variations), size, inst)
       THEN [font |-> Some(truetype(Head(variations), size)),
             tried |-> Append(tried, Head(variations))]
       ELSE try_fonts(Tail(variations), size, inst, Append(tried, Head(variations)))

\* a fallback without its warning
resolve_font_silent(variations, size, inst) ==
  LET r == try_fonts(variations, size, inst, <<>>)
  IN  [font |-> IF r.font = None THEN load_default ELSE Get(r.font),
       tried |-> r.tried,
       warning |-> FALSE,
       variations |-> variations,
       size |-> size]

\* the font a resolution loop ends with, and whether its warning is printed
resolve_font(variations, size, inst) ==
  LET r == try_fonts(variations, size, inst, <<>>)
  IN  [font |-> IF r.font = None THEN load_default ELSE Get(r.font),
       tried |-> r.tried,
       warning |-> r.font = None,
       variations |-> variations,
       size |-> size]

\* int(font_size * f) for f = 0.65 and 0.9: Python truncates the double
\* product, which for 0 <= font_size <= 100000 is floor(font_size * pct / 100)
int_scaled(font_size, pct) == (font_size * pct) \div 100

\* the 0.65 tier starting above 30 characters, not at 30
adjusted_font_size_above_30(text, font_size) ==
  IF StrLen(text) > 30 THEN int_scaled(font_size, 65)
  ELSE IF StrLen(text) >= 24 THEN int_scaled(font_size, 90)
  ELSE IF StrLen(text) >= 22 THEN int_scaled(font_size, 90)
  ELSE font_size

adjusted_font_size(text, font_size) ==
  IF StrLen(text) >= 30 THEN int_scaled(font_size, 65)
  ELSE IF StrLen(text) >= 24 THEN int_scaled(font_size, 90)
  ELSE IF StrLen(text) >= 22 THEN int_scaled(font_size, 90)
  ELSE font_size

bold_font_variations(font_family) ==
  << font_family \o <<"-", "Bold">>,
     font_family \o <<" ", "Bold">>,
     font_family,
     SUPPLEMENTAL \o font_family \o <<" ", "Bold", ".ttf">>,
     SUPPLEMENTAL \o font_family \o <<"-", "Bold", ".ttf">>,
     SUPPLEMENTAL \o font_family \o <<".ttf">>,
     SUPPLEMENTAL \o <<"Arial", " ", "Bold", ".ttf">>,
     SUPPLEMENTAL \o <<"Arial", ".ttf">> >>

title_font_variations(title_font_family) ==
  LET nospace == Replace(title_font_family, <<" ">>, <<>>)
  IN << title_font_family,
        nospace,
        nospace \o <<"-", "Regular">>,
        LIBRARY_FONTS \o nospace \o <<"-", "Regular", ".otf">>,
        LIBRARY_FONTS \o nospace \o <<".otf">>,
        SUPPLEMENTAL \o title_font_family \o <<".ttf">>,
        SUPPLEMENTAL \o Replace(title_font_family, <<"-", "Bold">>, <<>>) \o <<".ttf">>,
        <<"/System/Library/Fonts/", "Helvetica", ".ttc">> >>

footer_font_variations(footer_font_family) ==
  << footer_font_family,
     SUPPLEMENTAL \o footer_font_family \o <<".ttf">>,
     SUPPLEMENTAL \o <<"Arial", ".ttf">> >>

\* draw.textbbox((0, 0), text, font=font): <<left, top, right, bottom>>.
\* Pillow measures the glyphs; here the box grows with the font size and
\* with the length of the text, and starts below the origin.
textbbox(text, font) ==
  IF text = <<>> THEN <<0, 0, 0, 0>>
  ELSE <<0, font.size \div 4, (StrLen(text) * font.size) \div 2, font.size>>

(***************************************************************************)
(* Images.                                                                 *)
(***************************************************************************)
\* Image.new("RGBA", size, color), tagged with the function that made it
ImageNew(kind, size, color) ==
  [kind |-> kind, size |-> size, fill |-> color,
   pastes |-> <<>>, texts |-> <<>>, src |-> <<>>]

\* im.paste(src, at[, mask]) on canvas
Paste(canvas, im, at) ==
  [canvas EXCEPT !.pastes = Append(@, [im |-> im, at |-> at])]

\* draw.text(at, text, font=font, fill=color) on canvas
DrawText(canvas, at, text, font, color) ==
  [canvas EXCEPT !.texts = Append(@, [text |-> text, at |-> at, font |-> font, color |-> color])]

Max2(a, b) == IF a >= b THEN a ELSE b

bottom_crop_length == 25
bar_width == 5

get_processed_image_from_path(image_path) ==
  LET box == <<bar_width, bar_width, 705 - bottom_crop_length, 1000 - bottom_crop_length>>
  IN  [kind |-> "image", size |-> <<box[3] - box[1], box[4] - box[2]>>, fill |-> <<>>,
       pastes |-> <<>>, texts |-> <<>>, src |-> image_path]

\* a label that leaves out the bottom margin
text_area_height_no_margin(text_height) == text_height + TEXT_PADDING

\* line 144
text_area_height(text_height) == text_height + TEXT_PADDING + TEXT_BOTTOM_MARGIN

label_font(text, font_size, font_family, inst) ==
  resolve_font(bold_font_variations(font_family), adjusted_font_size(text, font_size), inst)

add_text_label_to_image(image, text, font_size, font_family, text_color, bg_color, inst) ==
  LET font == label_font(text, font_size, font_family, inst).font
      text_bbox == textbbox(text, font)
      text_width == text_bbox[3] - text_bbox[1]
      text_height == text_bbox[4] - text_bbox[2]
      img_width == image.size[1]
      img_height == image.size[2]
      new_height == img_height + text_area_height(text_height)
      new_image == Paste(ImageNew("label", <<img_width, new_height>>, bg_color), image, <<0, 0>>)
      text_x == (img_width - text_width) \div 2
      text_y == img_height + TEXT_PADDING
  IN  DrawText(new_image, <<text_x, text_y>>, text, font, text_color)

title_font(title_font_size, title_font_family, inst) ==
  resolve_font(title_font_variations(title_font_family), title_font_size, inst)

create_title_row(width, title, height, size, family, text_rgba, bg_rgba, inst) ==
  LET title_image == ImageNew("title", <<width, height>>, bg_rgba)
      font == title_font(size, family, inst).font
      text_bbox == textbbox(title, font)
      text_width == text_bbox[3] - text_bbox[1]
      text_height == text_bbox[4] - text_bbox[2]
      text_x == (width - text_width) \div 2
      text_y == (height - text_height) \div 2
  IN  DrawText(title_image, <<text_x, text_y>>, title, font, text_rgba)

footer_font(footer_font_size, footer_font_family, inst) ==
  resolve_font(footer_font_variations(footer_font_family), footer_font_size, inst)

create_footer_row(width, text, height, size, family, text_rgba, bg_rgba, left, inst) ==
  LET footer_image == ImageNew("footer", <<width, height>>, bg_rgba)
      font == footer_font(size, family, inst).font
      text_bbox == textbbox(text, font)
      text_height == text_bbox[4] - text_bbox[2]
      text_x == left
      text_y == (height - text_height) \div 2
  IN  DrawText(footer_image, <<text_x, text_y>>, text, font, text_rgba)

\* a horizontal merge as tall as its right image
merge_horizontally_right_height(im1, im2, spacing, bg_color) ==
  LET bg == IF bg_color = None THEN DEFAULT_BACKGROUND_COLOR ELSE bg_color
      w == im1.size[1] + spacing + im2.size[1]
      h == im2.size[2]
      im == ImageNew("merge_horizontally", <<w, h>>, bg)
  IN  Paste(Paste(im, im1, <<0, 0>>), im2, <<im1.size[1] + spacing, 0>>)

merge_horizontally(im1, im2, spacing, bg_color) ==
  LET bg == IF bg_color = None THEN DEFAULT_BACKGROUND_COLOR ELSE bg_color
      w == im1.size[1] + spacing + im2.size[1]
      h == Max2(im1.size[2], im2.size[2])
      im == ImageNew("merge_horizontally", <<w, h>>, bg)
  IN  Paste(Paste(im, im1, <<0, 0>>), im2, <<im1.size[1] + spacing, 0>>)

\* a vertical merge that pastes its bottom image right under the top one,
\* inside the gutter
merge_vertically_paste_in_gutter(im1, im2, spacing, bg_color) ==
  LET bg == IF bg_color = None THEN DEFAULT_BACKGROUND_COLOR ELSE bg_color
      h == im1.size[2] + spacing + im2.size[2]
      w == Max2(im1.size[1], im2.size[1])
      im == ImageNew("merge_vertically", <<w, h>>, bg)
  IN  Paste(Paste(im, im1, <<0, 0>>), im2, <<0, im1.size[2]>>)

\* a vertical merge as wide as its bottom image
merge_vertically_bottom_width(im1, im2, spacing, bg_color) ==
  LET bg == IF bg_color = None THEN DEFAULT_BACKGROUND_COLOR ELSE bg_color
      h == im1.size[2] + spacing + im2.size[2]
      w == im2.size[1]
      im == ImageNew("merge_vertically", <<w, h>>, bg)
  IN  Paste(Paste(im, im1, <<0, 0>>), im2, <<0, im1.size[2] + spacing>>)

merge_vertically(im1, im2, spacing, bg_color) ==
  LET bg == IF bg_color = None THEN DEFAULT_BACKGROUND_COLOR ELSE bg_color
      h == im1.size[2] + spacing + im2.size[2]
      w == Max2(im1.size[1], im2.size[1])
      im == ImageNew("merge_vertically", <<w, h>>, bg)
  IN  Paste(Paste(im, im1, <<0, 0>>), im2, <<0, im1.size[2] + spacing>>)

\* margins that leave out the right one
add_margins_left_only(poster, left_margin, right_margin, background_color) ==
  LET new_width == poster.size[1] + left_margin
      final_poster == ImageNew("margins", <<new_width, poster.size[2]>>, background_color)
  IN  Paste(final_poster, poster, <<left_margin, 0>>)

\* row building that loses the tile that closes a row
build_row_drop(current, elements, rows, processed_image, per_row, spacing, bg_color) ==
  IF current = None
  THEN [current_row_image |-> Some(processed_image), elements_in_row_so_far |-> 1,
        row_images |-> rows]
  ELSE IF elements < per_row
  THEN [current_row_image |->
          Some(merge_horizontally(Get(current), processed_image, spacing, bg_color)),
        elements_in_row_so_far |-> elements + 1,
        row_images |-> rows]
  ELSE [current_row_image |-> None, elements_in_row_so_far |-> 0,
        row_images |-> Append(rows, Get(current))]

\* row building that closes a row one tile late
build_row_late(current, elements, rows, processed_image, per_row, spacing, bg_color) ==
  IF current = None
  THEN [current_row_image |-> Some(processed_image), elements_in_row_so_far |-> 1,
        row_images |-> rows]
  ELSE IF elements <= per_row
  THEN [current_row_image |->
          Some(merge_horizontally(Get(current), processed_image, spacing, bg_color)),
        elements_in_row_so_far |-> elements + 1,
        row_images |-> rows]
  ELSE [current_row_image |-> Some(processed_image), elements_in_row_so_far |-> 1,
        row_images |-> Append(rows, Get(current))]

\* lines 466-477: the tile starts the first row, joins the current row, or
\* closes it and starts the next
build_row(current, elements, rows, processed_image, per_row, spacing, bg_color) ==
  IF current = None
  THEN [current_row_image |-> Some(processed_image), elements_in_row_so_far |-> 1,
        row_images |-> rows]
  ELSE IF elements < per_row
  THEN [current_row_image |->
          Some(merge_horizontally(Get(current), processed_image, spacing, bg_color)),
        elements_in_row_so_far |-> elements + 1,
        row_images |-> rows]
  ELSE [current_row_image |-> Some(processed_image), elements_in_row_so_far |-> 1,
        row_images |-> Append(rows, Get(current))]

\* final_poster = Image.new(...); final_poster.paste(poster, (left_margin, 0))
add_margins(poster, left_margin, right_margin, background_color) ==
  LET poster_width == poster.size[1]
      poster_height == poster.size[2]
      new_width == poster_width + left_margin + right_margin
      final_poster == ImageNew("margins", <<new_width, poster_height>>, background_color)
  IN  Paste(final_poster, poster, <<left_margin, 0>>)

(***************************************************************************)
(* get_poster.  The arguments of the call and the machine's fonts are      *)
(* chosen at the start and never change; the other variables are the       *)
(* function's locals and what it has printed.                              *)
(***************************************************************************)
VARIABLES
  images_per_row, image_paths, add_labels, font_size, font_family,
  title, title_font_family, footer_text, footer_font_family,
  horizontal_spacing, vertical_spacing, left_margin, right_margin,
  installed,
  pc, next_path, row_images, elements_in_row_so_far, current_row_image,
  next_row, poster, resolution, stdout, raised

args == <<images_per_row, image_paths, add_labels, font_size, font_family,
          title, title_font_family, footer_text, footer_font_family,
          horizontal_spacing, vertical_spacing, left_margin, right_margin,
          installed>>

locals == <<pc, next_path, row_images, elements_in_row_so_far, current_row_image,
            next_row, poster, resolution, stdout, raised>>

vars == <<args, locals>>

\* the arguments every call of this model leaves at their defaults
text_color == TEXT_COLOR
bg_color == TEXT_BACKGROUND_COLOR
background_color == DEFAULT_BACKGROUND_COLOR
title_height == DEFAULT_TITLE_HEIGHT
title_font_size == DEFAULT_TITLE_FONT_SIZE
title_text_color == TITLE_TEXT_COLOR
title_bg_color == TITLE_BACKGROUND_COLOR
footer_height == DEFAULT_FOOTER_HEIGHT
footer_font_size == DEFAULT_FOOTER_FONT_SIZE
footer_text_color == FOOTER_TEXT_COLOR
footer_bg_color == FOOTER_BACKGROUND_COLOR
footer_left_margin == FOOTER_LEFT_MARGIN

\* the bands merged with the gutter of the rows
spacing_of_rows == vertical_spacing

\* merge_vertically's default for spacing, which the two band merges use
default_spacing == 0

\* Python's truth value of an optional string: None and "" are false
Truthy(s) == s # None /\ Get(s) # <<>>

\* obj.size when obj may be None: None has no attribute size
HasSize(obj) == obj # None

\* int(len(image_paths) / images_per_row + 0.5), the row count of the
\* "Grid:" message
reported_rows(n, per_row) == (2 * n + per_row) \div (2 * per_row)

(***************************************************************************)
(* The inputs of the model.                                                *)
(***************************************************************************)
PathOf(name) == <<".", "/", "ppcovers", "/", "africa", "/">> \o name \o <<".png">>

UNITED_STATES == <<"United", "+", "States">>
DR_CONGO == <<"Democratic", "+", "Republic", "+", "of", "+", "the", "+", "Congo">>

\* names of 21, 22, 23, 24, 29, 30 and 4 characters
OtherNames ==
  { <<"Sao", "+", "Tome", "+", "and", "+", "Principe">>,
    <<"Bosnia", "+", "and", "+", "Herzegovina">>,
    <<"Cocos", "+", "(Keeling)", "+", "Islands">>,
    <<"Central", "+", "African", "+", "Republic">>,
    <<"Bonaire", "+", "St", "+", "Eustatius", "+", "and", "+", "Saba">>,
    <<"Federated", "+", "States", "+", "of", "+", "Micronesia">>,
    <<"Chad">> }

GridPaths == {PathOf(UNITED_STATES), PathOf(DR_CONGO)}
LabelPaths == GridPaths \cup {PathOf(n) : n \in OtherNames}

\* <<horizontal_spacing, vertical_spacing>>: the defaults, and main()'s
\* world poster
Spacings == {<<DEFAULT_HORIZONTAL_SPACING, DEFAULT_VERTICAL_SPACING>>, <<20, 8>>}
Texts == {None, Some(<<>>), Some(<<"X">>)}
FontSizes == {1, 2, DEFAULT_FONT_SIZE}

\* <<font_family, title_font_family, footer_font_family>>: the defaults, and
\* families with a space and with a "-Bold" to replace
FontFamilies ==
  { <<DEFAULT_FONT_FAMILY, DEFAULT_TITLE_FONT_FAMILY, DEFAULT_FOOTER_FONT_FAMILY>>,
    << <<"Helvetica">>, <<"Lithos", " ", "Pro">>,
       <<"SF", "-", "Pro", "-", "Display", "-", "Bold">> >> }

SeqsUpTo(S, n) == UNION {[1..k -> S] : k \in 0..n}

\* a machine with the fonts the default arguments name
MacFonts == {<<"Arial">>, SUPPLEMENTAL \o <<"Arial", ".ttf">>,
             SUPPLEMENTAL \o <<"Arial", " ", "Bold", ".ttf">>,
             <<"/System/Library/Fonts/", "Helvetica", ".ttc">>}

Range(f) == {f[k] : k \in DOMAIN f}

\* every name the three resolution loops can ask for
FontNames(caption_family, title_family, footer_family) ==
  Range(bold_font_variations(caption_family))
    \cup Range(title_font_variations(title_family))
    \cup Range(footer_font_variations(footer_family))

InitLocals ==
  /\ pc = "start"
  /\ next_path = 1
  /\ row_images = <<>>
  /\ elements_in_row_so_far = 0
  /\ current_row_image = None
  /\ next_row = 1
  /\ poster = None
  /\ resolution = None
  /\ stdout = <<>>
  /\ raised = None

\* the grid: any tiles, any row length, with and without spacing and labels;
\* no bands, default margins and fonts
Init ==
  /\ images_per_row \in 1..MaxPerRow
  /\ image_paths \in SeqsUpTo(GridPaths, MaxTiles)
  /\ add_labels \in BOOLEAN
  /\ font_size = DEFAULT_FONT_SIZE
  /\ font_family = DEFAULT_FONT_FAMILY
  /\ title = None
  /\ title_font_family = DEFAULT_TITLE_FONT_FAMILY
  /\ footer_text = None
  /\ footer_font_family = DEFAULT_FOOTER_FONT_FAMILY
  /\ \E sp \in Spacings : horizontal_spacing = sp[1] /\ vertical_spacing = sp[2]
  /\ left_margin = DEFAULT_LEFT_MARGIN
  /\ right_margin = DEFAULT_RIGHT_MARGIN
  /\ installed = MacFonts
  /\ InitLocals

\* the bands and the margins: few tiles (none included), any title, footer
\* and margins
InitBands ==
  /\ images_per_row \in 1..MaxPerRow
  /\ image_paths \in SeqsUpTo(GridPaths, MaxBandTiles)
  /\ add_labels = TRUE
  /\ font_size = DEFAULT_FONT_SIZE
  /\ font_family = DEFAULT_FONT_FAMILY
  /\ title \in Texts
  /\ title_font_family = DEFAULT_TITLE_FONT_FAMILY
  /\ footer_text \in Texts
  /\ footer_font_family = DEFAULT_FOOTER_FONT_FAMILY
  /\ \E sp \in Spacings : horizontal_spacing = sp[1] /\ vertical_spacing = sp[2]
  /\ left_margin \in 0..MaxMargin
  /\ right_margin \in 0..MaxMargin
  /\ installed = MacFonts
  /\ InitLocals

\* the fonts and the captions: one tile of any caption length, any small set
\* of installed fonts, with and without bands
InitFonts ==
  /\ images_per_row = 1
  /\ image_paths \in SeqsUpTo(LabelPaths, 1)
  /\ add_labels = TRUE
  /\ font_size \in FontSizes
  /\ \E f \in FontFamilies :
        font_family = f[1] /\ title_font_family = f[2] /\ footer_font_family = f[3]
  /\ \E t \in {<<None, None>>, <<Some(<<"X">>), Some(<<"Y">>)>>} :
        title = t[1] /\ footer_text = t[2]
  /\ horizontal_spacing = DEFAULT_HORIZONTAL_SPACING
  /\ vertical_spacing = DEFAULT_VERTICAL_SPACING
  /\ left_margin = DEFAULT_LEFT_MARGIN
  /\ right_margin = DEFAULT_RIGHT_MARGIN
  /\ installed \in {s \in SUBSET FontNames(font_family, title_font_family, footer_font_family) :
                      Cardinality(s) <= MaxInstalled}
  /\ InitLocals

(***************************************************************************)
(* The steps of get_poster.                                                *)
(***************************************************************************)
\* lines 440-446
Start ==
  /\ pc = "start"
  /\ stdout' = stdout \o
       << [msg |-> "Creating poster", n |-> Len(image_paths)],
          [msg |-> "Grid", n |-> reported_rows(Len(image_paths), images_per_row)] >>
  /\ row_images' = <<>>
  /\ elements_in_row_so_far' = 0
  /\ current_row_image' = None
  /\ pc' = "tiles"
  /\ UNCHANGED <<args, next_path, next_row, poster, resolution, raised>>

\* lines 448-477: one iteration of the loop over image_paths
ProcessTile ==
  /\ pc = "tiles"
  /\ next_path <= Len(image_paths)
  /\ LET image_path == image_paths[next_path]
         country_name == get_country_name_from_path(image_path)
         opened == get_processed_image_from_path(image_path)
         formatted_name == format_country_name(country_name)
         res == label_font(formatted_name, font_size, font_family, installed)
         processed_image ==
           IF add_labels
           THEN add_text_label_to_image(opened, formatted_name, font_size, font_family,
                                        text_color, background_color, installed)
           ELSE opened
         row == build_row(current_row_image, elements_in_row_so_far, row_images,
                          processed_image, images_per_row, horizontal_spacing,
                          background_color)
     IN  /\ resolution' = IF add_labels THEN Some([who |-> "caption"] @@ res) ELSE resolution
         /\ stdout' = IF add_labels /\ res.warning
                      THEN Append(stdout, [msg |-> "Warning: bold font", n |-> next_path])
                      ELSE stdout
         /\ current_row_image' = row.current_row_image
         /\ elements_in_row_so_far' = row.elements_in_row_so_far
         /\ row_images' = row.row_images
  /\ next_path' = next_path + 1
  /\ UNCHANGED <<args, pc, next_row, poster, raised>>

\* lines 479-485: after the loop
AppendLastRow ==
  /\ pc = "tiles"
  /\ next_path > Len(image_paths)
  /\ row_images' = IF current_row_image # None
                   THEN Append(row_images, Get(current_row_image))
                   ELSE row_images
  /\ poster' = None
  /\ stdout' = Append(stdout, [msg |-> "Merging rows", n |-> Len(row_images')])
  /\ next_row' = 1
  /\ pc' = "rows"
  /\ UNCHANGED <<args, next_path, elements_in_row_so_far, current_row_image,
                 resolution, raised>>

\* lines 486-490: one iteration of the loop over row_images
MergeRow ==
  /\ pc = "rows"
  /\ next_row <= Len(row_images)
  /\ poster' = IF poster = None
               THEN Some(row_images[next_row])
               ELSE Some(merge_vertically(Get(poster), row_images[next_row],
                                          vertical_spacing, background_color))
  /\ next_row' = next_row + 1
  /\ UNCHANGED <<args, pc, next_path, row_images, elements_in_row_so_far,
                 current_row_image, resolution, stdout, raised>>

\* lines 492-505
AddTitle ==
  /\ pc = "rows"
  /\ next_row > Len(row_images)
  /\ IF ~Truthy(title)
     THEN /\ pc' = "footer"
          /\ UNCHANGED <<poster, resolution, stdout, raised>>
     ELSE IF ~HasSize(poster)
     THEN /\ pc' = "raised"
          /\ raised' = Some("AttributeError")
          /\ stdout' = Append(stdout, [msg |-> "Adding title", n |-> 0])
          /\ UNCHANGED <<poster, resolution>>
     ELSE LET res == title_font(title_font_size, title_font_family, installed)
              title_row == create_title_row(Get(poster).size[1], Get(title), title_height,
                                            title_font_size, title_font_family,
                                            title_text_color, title_bg_color, installed)
          IN  /\ resolution' = Some([who |-> "title"] @@ res)
              /\ stdout' = stdout \o <<[msg |-> "Adding title", n |-> 0]>> \o
                           (IF res.warning THEN <<[msg |-> "Warning: title font", n |-> 0]>>
                            ELSE <<>>)
              /\ poster' = Some(merge_vertically(title_row, Get(poster), default_spacing, background_color))
              /\ pc' = "footer"
              /\ UNCHANGED raised
  /\ UNCHANGED <<args, next_path, row_images, elements_in_row_so_far,
                 current_row_image, next_row>>

\* lines 507-521
AddFooter ==
  /\ pc = "footer"
  /\ IF ~Truthy(footer_text)
     THEN /\ pc' = "margins"
          /\ UNCHANGED <<poster, resolution, stdout, raised>>
     ELSE IF ~HasSize(poster)
     THEN /\ pc' = "raised"
          /\ raised' = Some("AttributeError")
          /\ stdout' = Append(stdout, [msg |-> "Adding footer", n |-> 0])
          /\ UNCHANGED <<poster, resolution>>
     ELSE LET res == footer_font(footer_font_size, footer_font_family, installed)
              footer_row == create_footer_row(Get(poster).size[1], Get(footer_text),
                                              footer_height, footer_font_size,
                                              footer_font_family, footer_text_color,
                                              footer_bg_color, footer_left_margin, installed)
          IN  /\ resolution' = Some([who |-> "footer"] @@ res)
              /\ stdout' = stdout \o <<[msg |-> "Adding footer", n |-> 0]>> \o
                           (IF res.warning THEN <<[msg |-> "Warning: footer font", n |-> 0]>>
                            ELSE <<>>)
              /\ poster' = Some(merge_vertically(Get(poster), footer_row, default_spacing, background_color))
              /\ pc' = "margins"
              /\ UNCHANGED raised
  /\ UNCHANGED <<args, next_path, row_images, elements_in_row_so_far,
                 current_row_image, next_row>>

\* lines 523-537
AddMargins ==
  /\ pc = "margins"
  /\ IF ~(left_margin > 0 \/ right_margin > 0)
     THEN /\ pc' = "return"
          /\ UNCHANGED <<poster, raised>>
     ELSE IF ~HasSize(poster)
     THEN /\ pc' = "raised"
          /\ raised' = Some("AttributeError")
          /\ UNCHANGED poster
     ELSE /\ poster' = Some(add_margins(Get(poster), left_margin, right_margin,
                                        background_color))
          /\ pc' = "return"
          /\ UNCHANGED raised
  /\ UNCHANGED <<args, next_path, row_images, elements_in_row_so_far,
                 current_row_image, next_row, resolution, stdout>>

\* lines 539-540
Return ==
  /\ pc = "return"
  /\ IF ~HasSize(poster)
     THEN /\ pc' = "raised"
          /\ raised' = Some("AttributeError")
          /\ UNCHANGED stdout
     ELSE /\ stdout' = Append(stdout, [msg |-> "Poster created", n |-> 0])
          /\ pc' = "done"
          /\ UNCHANGED raised
  /\ UNCHANGED <<args, next_path, row_images, elements_in_row_so_far,
                 current_row_image, next_row, poster, resolution>>

Next ==
  \/ Start
  \/ ProcessTile
  \/ AppendLastRow
  \/ MergeRow
  \/ AddTitle
  \/ AddFooter
  \/ AddMargins
  \/ Return

Spec == Init /\ [][Next]_vars

SpecBands == InitBands /\ [][Next]_vars

SpecFonts == InitFonts /\ [][Next]_vars

(***************************************************************************)
(* Reading a composed image back.                                          *)
(***************************************************************************)
RECURSIVE RowTiles(_)
\* the tiles of a row image, left to right
RowTiles(row) ==
  IF row.kind = "merge_horizontally"
  THEN RowTiles(row.pastes[1].im) \o <<row.pastes[2].im>>
  ELSE <<row>>

RECURSIVE HorizontalMerges(_)
\* the number of merge_horizontally calls that built a row image
HorizontalMerges(row) ==
  IF row.kind = "merge_horizontally"
  THEN HorizontalMerges(row.pastes[1].im) + HorizontalMerges(row.pastes[2].im) + 1
  ELSE 0

RECURSIVE SumSeq(_)
SumSeq(q) == IF q = <<>> THEN 0 ELSE Head(q) + SumSeq(Tail(q))

MaxOf(S) == CHOOSE m \in S : \A x \in S : x <= m
Min2(a, b) == IF a <= b THEN a ELSE b
CeilDiv(n, d) == (n + d - 1) \div d

NumTiles == Len(image_paths)
RowSizes == [r \in 1..Len(row_images) |-> Len(RowTiles(row_images[r]))]
RowMerges == [r \in 1..Len(row_images) |-> HorizontalMerges(row_images[r])]
RowHeights == [r \in 1..Len(row_images) |-> row_images[r].size[2]]

\* the row loop has ended
RowsBuilt == pc \notin {"start", "tiles"}
\* the loop over row_images has ended and no band has been added yet
GridComplete == pc = "rows" /\ next_row > Len(row_images)

(***************************************************************************)
(* The claims.                                                             *)
(***************************************************************************)
\* C1: N >= 1 tiles with W per row give ceil(N / W) rows; every row but the
\* last holds W tiles, the last holds N mod W tiles (W when that is 0), and a
\* row of k tiles was built with k - 1 horizontal merges.
C1_RowCountAndSizes ==
  (RowsBuilt /\ NumTiles >= 1) =>
    /\ Len(row_images) = CeilDiv(NumTiles, images_per_row)
    /\ \A r \in 1..Len(row_images) :
         /\ RowSizes[r] = IF r < Len(row_images) THEN images_per_row
                          ELSE IF NumTiles % images_per_row = 0 THEN images_per_row
                          ELSE NumTiles % images_per_row
         /\ RowMerges[r] = RowSizes[r] - 1

C1_Witness ==
  /\ pc = "done"
  /\ NumTiles = 7 /\ images_per_row = 3
  /\ RowSizes = <<3, 3, 1>>
  /\ RowMerges = <<2, 2, 0>>

\* C3: every row is as tall as its tallest tile, and the grid is as tall as
\* its rows together plus vertical_spacing between consecutive rows.
C3_RowAndGridHeight ==
  /\ RowsBuilt =>
       \A r \in 1..Len(row_images) :
         LET tiles == RowTiles(row_images[r])
         IN  row_images[r].size[2] = MaxOf({tiles[k].size[2] : k \in 1..Len(tiles)})
  /\ (GridComplete /\ NumTiles >= 1) =>
       Get(poster).size[2] =
         SumSeq(RowHeights) + vertical_spacing * (Len(row_images) - 1)

\* rows of different heights, the taller tile not the last of its row
C3_Witness ==
  /\ GridComplete
  /\ vertical_spacing > 0
  /\ Len(row_images) >= 3
  /\ \E r1, r2 \in 1..Len(row_images) : RowHeights[r1] # RowHeights[r2]
  /\ \E r \in 1..Len(row_images) :
       LET tiles == RowTiles(row_images[r])
       IN  Len(tiles) >= 2 /\ tiles[Len(tiles)].size[2] < tiles[1].size[2]

\* C4: with N >= 1 tiles, all of width T, the grid is as wide as its widest
\* row: k * T + (k - 1) * horizontal_spacing for k = min(N, W), whatever the
\* length of the last row.
C4_GridWidth ==
  (GridComplete /\ NumTiles >= 1) =>
    LET T == RowTiles(row_images[1])[1].size[1]
        k == Min2(NumTiles, images_per_row)
    IN  (\A r \in 1..Len(row_images) :
           \A j \in 1..RowSizes[r] : RowTiles(row_images[r])[j].size[1] = T)
        => Get(poster).size[1] = k * T + (k - 1) * horizontal_spacing

\* a last row shorter than the others, with spacing
C4_Witness ==
  /\ GridComplete
  /\ horizontal_spacing > 0
  /\ Len(row_images) >= 2
  /\ RowSizes[Len(row_images)] < images_per_row
  /\ \A r \in 1..Len(row_images) :
       \A j \in 1..RowSizes[r] :
         RowTiles(row_images[r])[j].size[1] = RowTiles(row_images[1])[1].size[1]
  /\ row_images[Len(row_images)].size[1] < Get(poster).size[1]

\* C2: a call with no tiles ends with an explicit empty-input error, and
\* never ends otherwise.
C2_EmptyInputRejected ==
  (NumTiles = 0 /\ pc \in {"raised", "done"}) =>
    (pc = "raised" /\ raised = Some("EmptyInputError"))

\* C5: the margin step makes the poster left_margin + right_margin wider,
\* leaves its height alone and places what was composed at x = left_margin.
C5_Margins ==
  [][(pc = "margins" /\ pc' = "return" /\ poster # None) =>
       LET before == Get(poster)
           after == Get(poster')
       IN  /\ after.size = <<before.size[1] + left_margin + right_margin, before.size[2]>>
           /\ \/ after.pastes = <<[im |-> before, at |-> <<left_margin, 0>>]>>
              \/ (after = before /\ left_margin = 0)]_vars

\* a left margin of 0 with a right margin, applied
C5_Witness ==
  /\ pc = "return"
  /\ left_margin = 0 /\ right_margin > 0
  /\ poster # None
  /\ Get(poster).kind = "margins"
  /\ Get(poster).pastes[1].at = <<0, 0>>
  /\ Get(poster).size[1] = Get(poster).pastes[1].im.size[1] + right_margin

\* what the band steps composed: the poster without its margins
Composed == IF Get(poster).kind = "margins" THEN Get(poster).pastes[1].im ELSE Get(poster)
\* the part of it above the footer band
AboveFooter == IF Truthy(footer_text) THEN Composed.pastes[1].im ELSE Composed
\* the grid, below the title band
Grid == IF Truthy(title) THEN AboveFooter.pastes[2].im ELSE AboveFooter

\* C6: the poster is as tall as the grid plus the band of the title and the
\* band of the footer, each counted when its text is set, and nothing else:
\* no gutter between a band and the grid.
C6_BandHeights ==
  (pc \in {"margins", "return", "done"} /\ poster # None) =>
    /\ Get(poster).size[2] =
         (IF Truthy(title) THEN title_height ELSE 0)
         + Grid.size[2]
         + (IF Truthy(footer_text) THEN footer_height ELSE 0)
    /\ Grid.size[2] = SumSeq(RowHeights) + vertical_spacing * (Len(row_images) - 1)
    /\ Truthy(title) => AboveFooter.pastes[1].im.size[2] = title_height
    /\ Truthy(footer_text) => Composed.pastes[2].im.size[2] = footer_height

\* both bands, on a grid of two rows with a gutter
C6_Witness ==
  /\ pc = "done"
  /\ Truthy(title) /\ Truthy(footer_text)
  /\ vertical_spacing > 0
  /\ Len(row_images) >= 2
  /\ Get(poster).size[2] = title_height + Grid.size[2] + footer_height

\* the caption tiles composed so far
LabelTiles ==
  LET rows == row_images \o (IF current_row_image = None THEN <<>> ELSE current_row_image)
  IN  UNION { Range(RowTiles(rows[r])) : r \in 1..Len(rows) }

\* the font-size tier of a caption of L characters at requested size S
TierSize(L, S) ==
  IF L < 22 THEN S
  ELSE IF L < 30 THEN (S * 9) \div 10
  ELSE (S * 65) \div 100

\* whether candidate k of a finished resolution r loads
Loads(r, k) == truetype_loads(r.variations[k], r.size, installed)

\* C7: a captioned tile is as wide as its image and as tall as the image,
\* the measured height of the caption, TEXT_PADDING and TEXT_BOTTOM_MARGIN
\* together.
C7_LabelSize ==
  (add_labels /\ pc # "start") =>
    \A t \in LabelTiles :
      LET image == t.pastes[1].im
          drawn == t.texts[1]
          bbox == textbbox(drawn.text, drawn.font)
      IN  /\ t.kind = "label"
          /\ image.kind = "image" /\ t.pastes[1].at = <<0, 0>>
          /\ drawn.text # <<>> =>
               /\ t.size[1] = image.size[1]
               /\ t.size[2] = image.size[2] + (bbox[4] - bbox[2])
                                + TEXT_PADDING + TEXT_BOTTOM_MARGIN

\* a long caption, drawn in a font that loaded at a reduced size
C7_Witness ==
  /\ pc = "done"
  /\ \E t \in LabelTiles :
       /\ t.texts[1].text # <<>>
       /\ t.texts[1].font # load_default
       /\ t.texts[1].font.size < font_size
       /\ t.size[2] > t.pastes[1].im.size[2] + TEXT_PADDING + TEXT_BOTTOM_MARGIN

C9_FallbackWhenNoneLoads ==
  resolution # None =>
    LET r == Get(resolution)
    IN  (\A k \in 1..Len(r.variations) : ~Loads(r, k)) =>
          /\ r.tried = r.variations
          /\ r.font = load_default
          /\ r.warning
          /\ \E m \in 1..Len(stdout) :
               stdout[m].msg = (CASE r.who = "caption" -> "Warning: bold font"
                                  [] r.who = "title" -> "Warning: title font"
                                  [] r.who = "footer" -> "Warning: footer font")
          /\ raised = None /\ pc # "raised"

\* the three loops of one call all fell back
C9_Witness ==
  /\ pc = "done"
  /\ resolution # None /\ Get(resolution).who = "footer"
  /\ Get(resolution).font = load_default
  /\ Len(Get(resolution).tried) = 3
  /\ {"Warning: bold font", "Warning: title font", "Warning: footer font"}
       \subseteq {stdout[m].msg : m \in 1..Len(stdout)}

\* C10: the candidates tried are the first ones of the list, in its order,
\* up to and including the first that loads, which is the font returned;
\* the built-in font and its warning are used only when none loads.
C10_FirstThatLoads ==
  resolution # None =>
    LET r == Get(resolution)
        n == Len(r.tried)
    IN  /\ n <= Len(r.variations)
        /\ r.tried = SubSeq(r.variations, 1, n)
        /\ \A k \in 1..(n - 1) : ~Loads(r, k)
        /\ IF \E k \in 1..Len(r.variations) : Loads(r, k)
           THEN /\ n >= 1 /\ Loads(r, n)
                /\ r.font = truetype(r.variations[n], r.size)
                /\ ~r.warning
           ELSE /\ n = Len(r.variations)
                /\ r.font = load_default
                /\ r.warning

\* two candidates load: the search stops at the first of them, after the
\* candidates before it failed
C10_Witness ==
  /\ resolution # None
  /\ LET r == Get(resolution)
         n == Len(r.tried)
     IN  /\ n >= 2
         /\ Loads(r, n)
         /\ \E k \in (n + 1)..Len(r.variations) : Loads(r, k) /\ r.variations[k] # r.variations[n]
         /\ r.font.name = r.variations[n]

RECURSIVE Nodes(_)
\* an image and every image pasted, directly or not, on it
Nodes(im) == {im} \cup UNION {Nodes(im.pastes[k].im) : k \in 1..Len(im.pastes)}

RECURSIVE GridRows(_)
\* the rows of a grid, top to bottom
GridRows(grid) ==
  IF grid.kind = "merge_vertically"
  THEN GridRows(grid.pastes[1].im) \o <<grid.pastes[2].im>>
  ELSE <<grid>>

\* every image the call holds
HeldImages ==
  Range(row_images)
    \cup (IF current_row_image = None THEN {} ELSE {Get(current_row_image)})
    \cup (IF poster = None THEN {} ELSE {Get(poster)})

MergedImages(kind) == {c \in UNION {Nodes(im) : im \in HeldImages} : c.kind = kind}

\* C11: a horizontal merge of left and right is left.width + gutter +
\* right.width wide and max(left.height, right.height) tall, with left at
\* (0, 0) and right at (left.width + gutter, 0); a vertical merge is the
\* mirror image; and the rows that were merged are still what they were.
C11_MergeGeometry ==
  /\ \A c \in MergedImages("merge_horizontally") :
       LET left == c.pastes[1].im
           right == c.pastes[2].im
       IN  /\ Len(c.pastes) = 2
           /\ c.size = <<left.size[1] + horizontal_spacing + right.size[1],
                         Max2(left.size[2], right.size[2])>>
           /\ c.pastes[1].at = <<0, 0>>
           /\ c.pastes[2].at = <<left.size[1] + horizontal_spacing, 0>>
           /\ c.fill = background_color
  /\ \A c \in MergedImages("merge_vertically") :
       LET top == c.pastes[1].im
           bottom == c.pastes[2].im
           gutter == IF top.kind = "title" \/ bottom.kind = "footer"
                     THEN 0 ELSE vertical_spacing
       IN  /\ Len(c.pastes) = 2
           /\ c.size = <<Max2(top.size[1], bottom.size[1]),
                         top.size[2] + gutter + bottom.size[2]>>
           /\ c.pastes[1].at = <<0, 0>>
           /\ c.pastes[2].at = <<0, top.size[2] + gutter>>
           /\ c.fill = background_color
  /\ (GridComplete /\ NumTiles >= 1) => GridRows(Get(poster)) = row_images

\* merges with gutters of images of different heights and of different widths
C11_Witness ==
  /\ GridComplete
  /\ horizontal_spacing > 0 /\ vertical_spacing > 0
  /\ \E c \in MergedImages("merge_horizontally") :
       c.pastes[1].im.size[2] < c.pastes[2].im.size[2]
  /\ \E c \in MergedImages("merge_vertically") :
       c.pastes[2].im.size[1] < c.pastes[1].im.size[1]
  /\ Len(row_images) >= 2
  /\ GridRows(Get(poster)) = row_images

\* C12: the caption band of every labelled tile is filled with bg_color,
\* the colour get_poster takes for the label background.
C12_CaptionFillIsBgColor ==
  (add_labels /\ pc # "start") => \A t \in LabelTiles : t.fill = bg_color

\* the source image of a tile, labelled or not
TileSource(t) == IF t.kind = "label" THEN t.pastes[1].im.src ELSE t.src

RECURSIVE Placed(_, _)
\* the tiles of an image with their absolute positions, given the position
\* of the image, in the order they were pasted
Placed(im, at) ==
  IF im.kind \in {"merge_horizontally", "merge_vertically", "margins"}
  THEN LET sub(k) == Placed(im.pastes[k].im,
                            <<at[1] + im.pastes[k].at[1], at[2] + im.pastes[k].at[2]>>)
       IN  IF Len(im.pastes) = 2 THEN sub(1) \o sub(2) ELSE sub(1)
  ELSE IF im.kind \in {"label", "image"}
  THEN <<[src |-> TileSource(im), at |-> at, size |-> im.size]>>
  ELSE <<>>

\* C14: tile i (from 0) of the input is in row i div W, column i mod W of
\* the grid: at x = (i mod W) * (tile width + horizontal_spacing) and
\* y = the heights of the rows above + (i div W) * vertical_spacing; the
\* grid holds every input tile once, in input order.
C14_TilePlacement ==
  (GridComplete /\ NumTiles >= 1) =>
    LET placed == Placed(Get(poster), <<0, 0>>)
    IN  /\ Len(placed) = NumTiles
        /\ \A i \in 0..(NumTiles - 1) :
             LET row == i \div images_per_row
                 col == i % images_per_row
                 tile == placed[i + 1]
             IN  /\ tile.src = image_paths[i + 1]
                 /\ tile.at[1] = col * (tile.size[1] + horizontal_spacing)
                 /\ tile.at[2] = SumSeq(SubSeq(RowHeights, 1, row)) + row * vertical_spacing
        /\ \A j, k \in 1..Len(placed) : j # k => placed[j].at # placed[k].at

\* seven tiles in rows of three, with gutters: the last tile starts row 2
C14_Witness ==
  /\ GridComplete
  /\ NumTiles = 7 /\ images_per_row = 3
  /\ horizontal_spacing > 0 /\ vertical_spacing > 0
  /\ RowHeights[1] # RowHeights[2]
  /\ LET placed == Placed(Get(poster), <<0, 0>>)
     IN  /\ Len(placed) = 7
         /\ placed[7].at = <<0, RowHeights[1] + RowHeights[2] + 2 * vertical_spacing>>
         /\ placed[6].at[1] = 2 * (placed[6].size[1] + horizontal_spacing)
         /\ placed[6].src # placed[7].src

\* the row count of the "Grid:" message
ReportedRows == stdout[2].n

\* C15: the row count printed in the "Grid:" message is the number of rows
\* built.
C15_ReportedRowsAreBuilt ==
  (RowsBuilt /\ NumTiles >= 1) =>
    /\ stdout[2].msg = "Grid"
    /\ ReportedRows = Len(row_images)

====
